---- MODULE Spec2Model ----
(***************************************************************************)
(* Model of package deprun: the one-shot readiness gate (Dependency) and   *)
(* the actor group (Group) that starts every actor in its own goroutine,   *)
(* waits for the first completion, interrupts every actor and drains the   *)
(* remaining completions (Group.Run).                                      *)
(*                                                                         *)
(* Actors are numbered 1..n in registration order; gate i is the           *)
(* Dependency created for actor i by AddDep. A dependsOn entry is either   *)
(* NilDep (a nil *Dependency) or the number of the actor owning the gate.  *)
(***************************************************************************)
EXTENDS Integers, Sequences, FiniteSets, TLC

\* ------------------------------------------------------------------ bounds
\* Actors per group, entries per dependsOn list, nil entries per group.
MaxActors == 3
MaxDeps == 2
MaxNil == 1
\* Entries per dependsOn list in the groups with arbitrary dependency graphs.
MaxGraphDeps == 1

\* ----------------------------------------------------------- value spaces
\* A nil entry of dependsOn (group.go: `if d == nil { continue }`).
NilDep == 0

\* Error values an execute may return; "nil" is Go's nil error.
NilErr == "nil"
Err == {"nil", "depErr"}

\* The value of a local that has not been assigned yet.
Unset == "unset"

\* The execute bodies: "any" is an arbitrary caller-supplied body (calls
\* ready any number of times, returns any error at any time; a body that
\* blocks until its interrupt is one of its behaviours); the others
\* are the bodies of the repeated tests of dependecy_test.go.
\*   "signal"  : ready(); <-started; return nil
\*   "starter" : close(started); return nil
\*   "failer"  : return depErr
\*   "fatal"   : t.Fatalf(...); return nil
Bodies == {"any", "signal", "starter", "failer", "fatal"}

VARIABLES
    scenario,     \* which group was built: "general" or one of the tests
    n,            \* len(g.actors)
    dependsOn,    \* actor.dependsOn, per actor
    body,         \* actor.execute, per actor (one of Bodies)
    gate,         \* actor.provides, per actor: the Dependency's fields
    started,      \* the tests' `started` channel is closed
    errors,       \* the buffered channel `errors` of Run (FIFO content)
    runPc,        \* position of Run
    runI,         \* loop index of Run's current loop
    err,          \* Run's local `err`
    ret,          \* the value Run returned
    pc,           \* position of each actor goroutine
    depIdx,       \* WaitDeps: index of the next dependsOn entry
    interrupted,  \* WaitDeps: local `interrupted`
    result,       \* value returned by execute
    calledReady,  \* history: actor i's execute has called its ready signal
    execCalls,    \* history: invocations of actor i's execute
    waitRet,      \* history: <<gate, value>> of each wait() that returned
    intrCalls,    \* history: invocations of actor i's interrupt callback
    intrArg,      \* history: argument of the last such invocation
    execLate,     \* history: execute was invoked after that invocation
    first         \* history: <<actor, value>> of the first send on errors

vars == <<scenario, n, dependsOn, body, gate, started, errors, runPc, runI,
          err, ret, pc, depIdx, interrupted, result, calledReady, execCalls,
          waitRet, intrCalls, intrArg, execLate, first>>

cfgVars == <<scenario, n, dependsOn, body>>
runVars == <<errors, runPc, runI, err, ret>>
histVars == <<calledReady, execCalls, waitRet, intrCalls, intrArg, execLate,
              first>>

Actors == 1..n

\* ------------------------------------------------------------ Dependency
\* The gate as Group.Run uses it (wait, ready, interrupt); types.go holds
\* the same three bodies under the exported names Wait, Ready, Interrupt.
\* newDependency(): an open channel, once not done, interrupted false.
newDependency == [once |-> FALSE, closed |-> FALSE, interrupted |-> FALSE]

\* Dependency.ready(): once.Do(func() { close(s.ch) }).
\* sync.Once serialises concurrent callers, so the body runs as one step.
ready(s) ==
    IF s.once THEN s
    ELSE [s EXCEPT !.once = TRUE, !.closed = TRUE]

\* Variants of interrupt: one that resolves without the once guard, one that
\* forgets `s.interrupted = true`.
interruptUnguarded(s) ==
    [s EXCEPT !.once = TRUE, !.interrupted = TRUE, !.closed = TRUE]

interruptUnmarked(s) ==
    IF s.once THEN s
    ELSE [s EXCEPT !.once = TRUE, !.closed = TRUE]

\* Variant of interrupt that forgets `close(s.ch)`.
interruptNoClose(s) ==
    IF s.once THEN s
    ELSE [s EXCEPT !.once = TRUE, !.interrupted = TRUE]

\* Dependency.interrupt(): once.Do(func() { s.interrupted = true; close(s.ch) }).
interrupt(s) ==
    IF s.once THEN s
    ELSE [s EXCEPT !.once = TRUE, !.interrupted = TRUE, !.closed = TRUE]

\* Variant of wait that returns the flag itself.
waitInverted(s) == s.interrupted

\* Variant of wait that does not block on the channel.
waitNeverBlocks(s) == TRUE

\* Dependency.wait(): `<-s.ch` unblocks once the channel is closed ...
waitUnblocked(s) == s.closed

\* ... and then wait returns !s.interrupted.
wait(s) == ~s.interrupted

\* Variant of the loop of WaitDeps that stops at the first false wait.
MoreDepsUntilInterrupted(i) ==
    depIdx[i] <= Len(dependsOn[i]) /\ ~interrupted[i]

\* The three states of a gate, read off the fields.
GateState(s) ==
    IF ~s.closed THEN "pending"
    ELSE IF s.interrupted THEN "interrupted" ELSE "ready"

\* ------------------------------------------------------------ the groups
\* Registration (AddDep/Add) appends the actor and only then returns its
\* gate, so an actor's dependsOn names gates of actors registered before it.
DepEntries(i) == {NilDep} \cup (1..(i - 1))

SeqsUpTo(S, k) == UNION {[1..m -> S] : m \in 0..k}

DepLists(i) == SeqsUpTo(DepEntries(i), MaxDeps)

\* The non-nil entries of actor i's dependsOn.
Deps(i) == {dependsOn[i][k] : k \in DOMAIN dependsOn[i]} \ {NilDep}

\* TestSingleDependency, TestMultipleDependencies, TestDependencyFailure.
TestGroups ==
    { [name |-> "single", deps |-> << <<>>, <<1>> >>,
       bodies |-> <<"signal", "starter">>],
      [name |-> "multiple", deps |-> << <<>>, <<>>, <<1, 2>> >>,
       bodies |-> <<"signal", "signal", "starter">>],
      [name |-> "failure", deps |-> << <<>>, <<1>> >>,
       bodies |-> <<"failer", "fatal">>] }

\* State after the group is built and before Run is called.
Built(name, deps, bodies) ==
    /\ scenario = name
    /\ n = Len(deps)
    /\ dependsOn = deps
    /\ body = bodies
    /\ gate = [i \in 1..Len(deps) |-> newDependency]
    /\ started = FALSE
    /\ errors = <<>>
    /\ runPc = "start"
    /\ runI = 0
    /\ err = Unset
    /\ ret = Unset
    /\ pc = [i \in 1..Len(deps) |-> "idle"]
    /\ depIdx = [i \in 1..Len(deps) |-> 1]
    /\ interrupted = [i \in 1..Len(deps) |-> FALSE]
    /\ result = [i \in 1..Len(deps) |-> Unset]
    /\ calledReady = [i \in 1..Len(deps) |-> FALSE]
    /\ execCalls = [i \in 1..Len(deps) |-> 0]
    /\ waitRet = [i \in 1..Len(deps) |-> <<>>]
    /\ intrCalls = [i \in 1..Len(deps) |-> 0]
    /\ intrArg = [i \in 1..Len(deps) |-> Unset]
    /\ execLate = [i \in 1..Len(deps) |-> FALSE]
    /\ first = <<>>

\* The nil entries of the dependsOn lists deps, as <<actor, index>>.
NilEntries(deps) ==
    {p \in (DOMAIN deps) \X (1..MaxDeps) :
        p[2] \in DOMAIN deps[p[1]] /\ deps[p[1]][p[2]] = NilDep}

InitGeneral ==
    \E m \in 0..MaxActors :
        \E deps \in [1..m -> UNION {DepLists(i) : i \in 1..m}] :
            /\ \A i \in 1..m : deps[i] \in DepLists(i)
            /\ Cardinality(NilEntries(deps)) <= MaxNil
            /\ Built("general", deps, [i \in 1..m |-> "any"])

InitTests ==
    \E t \in TestGroups : Built(t.name, t.deps, t.bodies)

Init == InitGeneral \/ InitTests

\* Groups with an arbitrary dependency graph. The variadic dependsOn is the
\* caller's slice, which the caller can fill in after registration, so an
\* entry can name any actor's gate: the actor's own or a later actor's too.
InitGraphs ==
    \/ \E m \in 0..MaxActors :
          \E deps \in [1..m -> SeqsUpTo(1..m, MaxGraphDeps)] :
              Built("graph", deps, [i \in 1..m |-> "any"])
    \/ InitTests

\* ------------------------------------------------------------- Group.Run
\* Variant of Run without the early return.
NoEarlyReturn(len) == FALSE

\* `if len(g.actors) == 0 { return nil }`
EmptyGroup(len) == len = 0

\* Variant of the channel with room for one value less.
CapOneLess == n - 1

\* cap(errors) after `errors := make(chan error, len(g.actors))`.
Cap == n

\* A send on the buffered channel, and what a receive hands out: the
\* oldest value.
Send(ch, v) == Append(ch, v)
\* Variant of the receive that hands out the newest value.
ReceiveNewest(ch) == ch[Len(ch)]

Receive(ch) == Head(ch)

\* Variant of the drain loop that starts one too early.
DrainFromZero == 1 - 1

\* Variant of the drain loop that starts one too far.
DrainFromNext == 1 + 1

\* `for i := 1; i < cap(errors); i++`: the first value of i.
DrainFrom == 1

\* Variant of the drain loop that assigns what it receives to err.
DrainOverwrites(e, v) == v

\* `<-errors` of the drain loop: the value received is dropped and err
\* stays what it is.
DrainKeeps(e, v) == e

\* Variant of the stop loop that calls the callbacks with nil.
InterruptArgNil(e) == NilErr

\* `a.interrupt(err)`: the value the callbacks are called with.
InterruptArg(e) == e

\* Variant of Run that returns nil whatever the first outcome.
ReturnNil(e) == NilErr

\* `return err`
ReturnValue(e) == e

\* Run is called. The empty group returns nil at once. Otherwise the
\* channel is made and `for _, a := range g.actors { go func(a actor) {...}(a) }`
\* starts one goroutine per actor, each standing before a.WaitDeps(). (A
\* goroutine that has not taken a step yet cannot be told from one that is
\* not started yet, so the loop is one step.)
RunBegin ==
    /\ runPc = "start"
    /\ IF EmptyGroup(n)
       THEN /\ runPc' = "returned"
            /\ ret' = NilErr
            /\ pc' = pc
       ELSE /\ runPc' = "recv"
            /\ ret' = ret
            /\ pc' = [i \in Actors |-> "wait"]
    /\ UNCHANGED <<cfgVars, gate, started, errors, runI, err, depIdx,
                   interrupted, result, histVars>>

\* `err := <-errors`: blocks until the first actor has reported.
RunReceiveFirst ==
    /\ runPc = "recv"
    /\ errors # <<>>
    /\ err' = Receive(errors)
    /\ errors' = Tail(errors)
    /\ runPc' = "stopGate"
    /\ runI' = 1
    /\ UNCHANGED <<cfgVars, gate, started, ret, pc, depIdx, interrupted,
                   result, histVars>>

\* Variant of the stop loop without `a.provides.interrupt()`.
RunInterruptGateLeftOut ==
    /\ runPc = "stopGate"
    /\ runPc' = "stopActor"
    /\ UNCHANGED <<cfgVars, gate, started, errors, runI, err, ret, pc, depIdx,
                   interrupted, result, histVars>>

\* `a.provides.interrupt()` of the stop loop, for actor runI.
RunInterruptGate ==
    /\ runPc = "stopGate"
    /\ gate' = [gate EXCEPT ![runI] = interrupt(gate[runI])]
    /\ runPc' = "stopActor"
    /\ UNCHANGED <<cfgVars, started, errors, runI, err, ret, pc, depIdx,
                   interrupted, result, histVars>>

\* `a.interrupt(err)` of the stop loop, for actor runI: the callback is
\* invoked with err and returns; then the loop moves on.
RunInterruptActor ==
    /\ runPc = "stopActor"
    /\ intrCalls' = [intrCalls EXCEPT ![runI] = @ + 1]
    /\ intrArg' = [intrArg EXCEPT ![runI] = InterruptArg(err)]
    /\ IF runI = n
       THEN runPc' = "drain" /\ runI' = DrainFrom
       ELSE runPc' = "stopGate" /\ runI' = runI + 1
    /\ UNCHANGED <<cfgVars, gate, started, errors, err, ret, pc, depIdx,
                   interrupted, result, calledReady, execCalls, waitRet,
                   execLate, first>>

\* One iteration of `for i := 1; i < cap(errors); i++ { <-errors }`.
RunDrain ==
    /\ runPc = "drain"
    /\ runI < Cap
    /\ errors # <<>>
    /\ err' = DrainKeeps(err, Receive(errors))
    /\ errors' = Tail(errors)
    /\ runI' = runI + 1
    /\ UNCHANGED <<cfgVars, gate, started, runPc, ret, pc, depIdx,
                   interrupted, result, histVars>>

\* `return err` once the drain loop is over.
RunReturn ==
    /\ runPc = "drain"
    /\ ~(runI < Cap)
    /\ runPc' = "returned"
    /\ ret' = ReturnValue(err)
    /\ UNCHANGED <<cfgVars, gate, started, errors, runI, err, pc, depIdx,
                   interrupted, result, histVars>>

RunStep ==
    \/ RunBegin
    \/ RunReceiveFirst
    \/ RunInterruptGate
    \/ RunInterruptActor
    \/ RunDrain
    \/ RunReturn

\* ------------------------------------------------------ actor goroutines
\* Variant of the loop of WaitDeps that leaves out the last entry.
MoreDepsButLast(i) == depIdx[i] < Len(dependsOn[i])

\* WaitDeps: `for _, d := range a.dependsOn` has entries left.
MoreDeps(i) == depIdx[i] <= Len(dependsOn[i])

\* Variant of WaitDeps that returns the flag itself.
WaitDepsResultInverted(intr) == intr

\* WaitDeps: `return !interrupted`.
WaitDepsResult(intr) == ~intr

\* Variant of the loop in which the last wait decides alone:
\* `interrupted = !d.wait()`.
LastWaitDecides(intr, w) == ~w

\* WaitDeps: `if !d.wait() { interrupted = true }`, w being what wait returned.
AfterWait(intr, w) == intr \/ ~w

\* Variant of the loop that takes a nil entry for an interrupted one.
NilInterrupts(intr) == TRUE

\* WaitDeps: `if d == nil { continue }` leaves the flag as it is.
AfterNil(intr) == intr

\* The send of a goroutine's completion; `first` remembers the first one.
Complete(i, v) ==
    /\ Len(errors) < Cap
    /\ errors' = Send(errors, v)
    /\ first' = IF first = <<>> THEN <<i, v>> ELSE first
    /\ pc' = [pc EXCEPT ![i] = "done"]

\* One iteration of the loop of WaitDeps: a nil entry is passed over,
\* otherwise d.wait() blocks until the gate is resolved and a false return
\* sets `interrupted`.
WaitDep(i) ==
    /\ i \in Actors
    /\ pc[i] = "wait"
    /\ MoreDeps(i)
    /\ LET d == dependsOn[i][depIdx[i]] IN
         IF d = NilDep
         THEN /\ interrupted' = [interrupted EXCEPT ![i] = AfterNil(@)]
              /\ waitRet' = waitRet
         ELSE /\ waitUnblocked(gate[d])
              /\ interrupted' =
                     [interrupted EXCEPT ![i] = AfterWait(@, wait(gate[d]))]
              /\ waitRet' =
                     [waitRet EXCEPT ![i] = Append(@, <<d, wait(gate[d])>>)]
    /\ depIdx' = [depIdx EXCEPT ![i] = @ + 1]
    /\ UNCHANGED <<cfgVars, gate, started, runVars, pc, result, calledReady,
                   execCalls, intrCalls, intrArg, execLate, first>>

\* WaitDeps returns: on false the goroutine is about to send nil, on true
\* it invokes a.execute(a.provides.ready).
WaitDepsReturn(i) ==
    /\ i \in Actors
    /\ pc[i] = "wait"
    /\ ~MoreDeps(i)
    /\ IF WaitDepsResult(interrupted[i])
       THEN /\ pc' = [pc EXCEPT ![i] = "exec"]
            /\ execCalls' = [execCalls EXCEPT ![i] = @ + 1]
            /\ execLate' = [execLate EXCEPT ![i] = intrCalls[i] > 0]
       ELSE /\ pc' = [pc EXCEPT ![i] = "skipped"]
            /\ execCalls' = execCalls
            /\ execLate' = execLate
    /\ UNCHANGED <<cfgVars, gate, started, runVars, depIdx, interrupted,
                   result, calledReady, waitRet, intrCalls, intrArg, first>>

\* `errors <- nil; return` of an actor whose WaitDeps returned false.
ReportSkipped(i) ==
    /\ i \in Actors
    /\ pc[i] = "skipped"
    /\ Complete(i, NilErr)
    /\ UNCHANGED <<cfgVars, gate, started, runPc, runI, err, ret, depIdx,
                   interrupted, result, calledReady, execCalls, waitRet,
                   intrCalls, intrArg, execLate>>

\* What the body of actor i may do next.
MayCallReady(i) ==
    CASE body[i] = "any" -> TRUE
      [] body[i] = "signal" -> ~calledReady[i]
      [] OTHER -> FALSE

MayCloseStarted(i) == body[i] = "starter" /\ ~started

MayReturn(i, e) ==
    CASE body[i] = "any" -> TRUE
      [] body[i] = "signal" -> calledReady[i] /\ started /\ e = NilErr
      [] body[i] = "starter" -> started /\ e = NilErr
      [] body[i] = "failer" -> e = "depErr"
      [] OTHER -> e = NilErr

\* execute calls its ready signal, a.provides.ready.
ExecReady(i) ==
    /\ i \in Actors
    /\ pc[i] = "exec"
    /\ MayCallReady(i)
    /\ gate' = [gate EXCEPT ![i] = ready(gate[i])]
    /\ calledReady' = [calledReady EXCEPT ![i] = TRUE]
    /\ UNCHANGED <<cfgVars, started, runVars, pc, depIdx, interrupted,
                   result, execCalls, waitRet, intrCalls, intrArg, execLate,
                   first>>

\* The dependent of the tests runs `close(started)`.
ExecCloseStarted(i) ==
    /\ i \in Actors
    /\ pc[i] = "exec"
    /\ MayCloseStarted(i)
    /\ started' = TRUE
    /\ UNCHANGED <<cfgVars, gate, runVars, pc, depIdx, interrupted, result,
                   histVars>>

\* `errors <- a.execute(a.provides.ready)`: execute returns e and the
\* goroutine sends it.
ExecReturn(i, e) ==
    /\ i \in Actors
    /\ pc[i] = "exec"
    /\ MayReturn(i, e)
    /\ result' = [result EXCEPT ![i] = e]
    /\ Complete(i, e)
    /\ UNCHANGED <<cfgVars, gate, started, runPc, runI, err, ret, depIdx,
                   interrupted, calledReady, execCalls, waitRet, intrCalls,
                   intrArg, execLate>>

ActorStep(i) ==
    \/ WaitDep(i)
    \/ WaitDepsReturn(i)
    \/ ReportSkipped(i)
    \/ ExecReady(i)
    \/ ExecCloseStarted(i)
    \/ \E e \in Err : ExecReturn(i, e)

Next == RunStep \/ \E i \in 1..MaxActors : ActorStep(i)

Spec == Init /\ [][Next]_vars

\* The tests' groups alone; the Go scheduler runs every goroutine that can
\* take a step, which is weak fairness of each goroutine's steps.
SpecTests ==
    /\ InitTests
    /\ [][Next]_vars
    /\ WF_vars(RunStep)
    /\ \A i \in 1..MaxActors : WF_vars(ActorStep(i))

\* The steps of actor i's goroutine that are this package's code: the loop
\* of WaitDeps, its return and the send of a skipped actor.
GoroutineStep(i) == WaitDep(i) \/ WaitDepsReturn(i) \/ ReportSkipped(i)

\* Groups with arbitrary dependency graphs under the Go scheduler: Run and
\* the package's own steps of every goroutine are taken when they can be.
\* Nothing is assumed of the execute bodies, which are the caller's.
SpecSched ==
    /\ InitGraphs
    /\ [][Next]_vars
    /\ WF_vars(RunStep)
    /\ \A i \in 1..MaxActors : WF_vars(GoroutineStep(i))

\* ------------------------------------------------------------ properties
AfterFirst == runPc \in {"stopGate", "stopActor", "drain", "returned"}

\* Actor i was skipped: its WaitDeps returned false.
Skipped(i) == pc[i] \in {"skipped", "done"} /\ execCalls[i] = 0

\* Actor i's execute has returned.
Executed(i) == pc[i] = "done" /\ execCalls[i] > 0

\* C1: an actor with at least one non-nil input dependency has its execute
\* invoked only when the owner of every one of its input gates has called
\* its ready signal.
C1_ExecuteAfterAllReady ==
    \A i \in Actors :
        (Deps(i) # {} /\ execCalls[i] > 0) =>
            \A d \in Deps(i) : calledReady[d]

\* An actor with two different input gates has started execute.
C1_Witness ==
    \E i \in Actors : Cardinality(Deps(i)) = 2 /\ execCalls[i] > 0

\* C2: in a group with actors, once Run has received the first completion
\* its err is the first value sent, and the value Run returns is that value,
\* whatever was sent later.
C2_ReturnsFirstOutcome ==
    /\ (n >= 1 /\ AfterFirst) => (first # <<>> /\ err = first[2])
    /\ (n >= 1 /\ runPc = "returned") => ret = first[2]

\* Run has returned the first outcome while an actor that completed later
\* returned another value.
C2_Witness ==
    /\ runPc = "returned"
    /\ \E i \in Actors : i # first[1] /\ Executed(i) /\ result[i] # ret

\* C3: when Run has returned, every actor goroutine has reported its
\* completion: none is waiting on its dependencies or inside execute.
C3_ReturnsAfterAllDone ==
    runPc = "returned" => \A i \in Actors : pc[i] = "done"

\* Run has returned from a group in which one actor ran execute and another
\* was skipped.
C3_Witness ==
    /\ runPc = "returned"
    /\ \E i, j \in Actors : Executed(i) /\ Skipped(j)

\* C4: every actor's interrupt callback is invoked at most once, only after
\* the first completion was received and with Run's err; when Run has
\* returned each was invoked exactly once with the value Run returned.
C4_InterruptOnceEach ==
    \A i \in Actors :
        /\ intrCalls[i] <= 1
        /\ intrCalls[i] = 1 => (AfterFirst /\ intrArg[i] = err)
        /\ runPc = "returned" => (intrCalls[i] = 1 /\ intrArg[i] = ret)

\* All callbacks were invoked: that of the actor that completed first, that
\* of a skipped actor and that of an actor that has not begun to wait.
C4_Witness ==
    \E i, j, k \in Actors :
        /\ \A a \in Actors : intrCalls[a] = 1
        /\ first[1] = j
        /\ Skipped(k)
        /\ pc[i] = "wait" /\ depIdx[i] = 1

\* C5: if an actor's execute has returned an error and never called its
\* ready signal, no actor that lists its gate has invoked execute.
C5_NoExecuteAfterFailedDep ==
    \A a \in Actors :
        (Executed(a) /\ result[a] # NilErr /\ ~calledReady[a]) =>
            \A d \in Actors : a \in Deps(d) => execCalls[d] = 0

\* A dependency failed without calling ready and its dependent was skipped
\* and has reported.
C5_Witness ==
    \E a, d \in Actors :
        /\ Executed(a) /\ result[a] # NilErr /\ ~calledReady[a]
        /\ a \in Deps(d)
        /\ pc[d] = "done"

\* Actor b waits, directly or through a chain of at most k further actors,
\* on the gate of actor a.
RECURSIVE DependsWithin(_, _, _)
DependsWithin(b, a, k) ==
    \/ a \in Deps(b)
    \/ /\ k > 0
       /\ \E c \in Deps(b) : DependsWithin(c, a, k - 1)

DependsOnActor(b, a) == DependsWithin(b, a, n)

\* Actor a is depended on, and its execute returned an error without ever
\* calling its ready signal.
FailedDependency(a) ==
    /\ \E d \in Actors : a \in Deps(d)
    /\ Executed(a) /\ result[a] # NilErr /\ ~calledReady[a]

\* C6 as stated: in any group, when a depended-on actor has returned error
\* e without calling ready, the value Run returns is e.
C6_Original ==
    \A a \in Actors :
        (FailedDependency(a) /\ runPc = "returned") => ret = result[a]

\* C6 as amended: when every other actor of the group depends on that actor,
\* directly or through other actors, the value Run returns is e.
C6_FailedRootIsReturned ==
    \A a \in Actors :
        ( /\ FailedDependency(a)
          /\ \A b \in Actors \ {a} : DependsOnActor(b, a)
          /\ runPc = "returned" ) => ret = result[a]

\* Run has returned the error of a failed dependency that two other actors
\* depend on, one of them through the other.
C6_Witness ==
    \E a, b, c \in Actors :
        /\ FailedDependency(a)
        /\ a \in Deps(b) /\ b \in Deps(c) /\ a \notin Deps(c)
        /\ runPc = "returned" /\ ret = result[a]

\* The gate interrupt has been called on actor g's gate by the stop loop.
InterruptCalled(g) ==
    \/ runPc \in {"drain", "returned"}
    \/ runPc = "stopActor" /\ runI >= g
    \/ runPc = "stopGate" /\ runI > g

\* C7: whatever calls of ready and interrupt are made on a gate, its fields
\* change only in a step that takes it from pending to ready or from
\* pending to interrupted; a resolved gate never changes again.
C7_ResolvedOnce ==
    [][\A g \in Actors :
          gate'[g] # gate[g] =>
              /\ GateState(gate[g]) = "pending"
              /\ GateState(gate'[g]) \in {"ready", "interrupted"}]_vars

\* One gate is ready although interrupt was called on it afterwards, and
\* another is interrupted although its owner called ready afterwards.
C7_Witness ==
    \E g, h \in Actors :
        /\ GateState(gate[g]) = "ready" /\ InterruptCalled(g)
        /\ GateState(gate[h]) = "interrupted" /\ calledReady[h]

\* C8: every wait that has returned did so on a resolved gate, with true
\* exactly if the gate is ready and false exactly if it is interrupted; so
\* all waits on one gate returned the same value.
C8_WaitersAgree ==
    \A i \in Actors : \A k \in DOMAIN waitRet[i] :
        LET g == waitRet[i][k][1]
            v == waitRet[i][k][2]
        IN /\ GateState(gate[g]) # "pending"
           /\ v <=> GateState(gate[g]) = "ready"
           /\ ~v <=> GateState(gate[g]) = "interrupted"

\* Two actors have waited on the same ready gate, and an actor has waited
\* on an interrupted gate.
C8_Witness ==
    /\ \E i, j \in Actors : \E g \in Actors :
          /\ i # j
          /\ <<g, TRUE>> \in {waitRet[i][k] : k \in DOMAIN waitRet[i]}
          /\ <<g, TRUE>> \in {waitRet[j][k] : k \in DOMAIN waitRet[j]}
    /\ \E i \in Actors : \E k \in DOMAIN waitRet[i] : ~waitRet[i][k][2]

\* The value each test expects of Run.
Expected ==
    IF scenario = "failure" THEN "depErr" ELSE NilErr

\* C9: in each of the three tests' groups every fair run ends with Run
\* returning, and the value returned is nil, nil and the dependency's
\* error respectively.
C9_TestsDeterministic ==
    /\ <>(runPc = "returned")
    /\ [](runPc = "returned" => ret = Expected)

\* The run of TestDependencyFailure has returned the dependency's error.
C9_Witness ==
    scenario = "failure" /\ runPc = "returned" /\ ret = "depErr"

\* C10: Run on a group without actors can take its step at once, that step
\* returns nil, and nothing else happens: no goroutine, no callback, no
\* value on the channel.
C10_EmptyGroupReturnsNil ==
    n = 0 =>
        /\ \/ runPc = "start" /\ ENABLED RunBegin
           \/ runPc = "returned" /\ ret = NilErr
        /\ pc = <<>> /\ intrCalls = <<>> /\ execCalls = <<>>
        /\ errors = <<>> /\ first = <<>> /\ err = Unset

\* Run has returned from the empty group.
C10_Witness == n = 0 /\ runPc = "returned"

\* The values wait returned to actor i, in order.
WaitValues(i) == [k \in DOMAIN waitRet[i] |-> waitRet[i][k][2]]

\* C13: an actor with an input gate resolved as interrupted never invokes
\* execute, whatever its other gates are, and the completion it reports is
\* nil.
C13_InterruptedDepSkips ==
    /\ [](\A i \in Actors :
            (\E d \in Deps(i) : GateState(gate[d]) = "interrupted") =>
                execCalls[i] = 0)
    /\ [][\A i \in Actors :
            ( /\ \E d \in Deps(i) : GateState(gate[d]) = "interrupted"
              /\ pc[i] # "done" /\ pc'[i] = "done" ) =>
                errors' = Append(errors, NilErr)]_vars

\* An actor whose first gate was interrupted and whose second was ready was
\* skipped and has reported.
C13_Witness ==
    \E i \in Actors :
        /\ WaitValues(i) = <<FALSE, TRUE>>
        /\ pc[i] = "done" /\ execCalls[i] = 0

\* C14: an actor has neither invoked execute nor been skipped while one of
\* its non-nil input gates is still pending.
C14_NoShortCircuit ==
    \A i \in Actors :
        (execCalls[i] > 0 \/ pc[i] \in {"skipped", "done"}) =>
            \A d \in Deps(i) : GateState(gate[d]) # "pending"

\* An actor whose first wait returned false is still waiting on its second
\* gate, which is pending.
C14_Witness ==
    \E i \in Actors :
        /\ pc[i] = "wait" /\ depIdx[i] = 2 /\ interrupted[i]
        /\ Len(dependsOn[i]) = 2
        /\ dependsOn[i][2] # NilDep
        /\ GateState(gate[dependsOn[i][2]]) = "pending"

\* C15: before Run has received the first completion no gate is
\* interrupted and no actor is skipped, and the first completion is that of
\* an actor that ran execute.
C15_NoInterruptBeforeFirst ==
    /\ ~AfterFirst =>
          /\ \A g \in Actors : GateState(gate[g]) # "interrupted"
          /\ \A i \in Actors : ~Skipped(i)
    /\ first # <<>> => execCalls[first[1]] = 1

\* The first completion came from an actor with an input gate, and after it
\* a gate was interrupted and an actor skipped.
C15_Witness ==
    /\ first # <<>> /\ Deps(first[1]) # {}
    /\ \E g \in Actors : GateState(gate[g]) = "interrupted"
    /\ \E i \in Actors : Skipped(i)

\* C16: a ready gate stays ready; no actor invokes execute more than once;
\* and an actor that has left WaitDeps with all its non-nil input gates
\* ready has invoked execute exactly once, also when its interrupt callback
\* was invoked before.
C16_ReadyIsKept ==
    /\ [][\A g \in Actors :
            GateState(gate[g]) = "ready" => GateState(gate'[g]) = "ready"]_vars
    /\ [](\A i \in Actors :
            /\ execCalls[i] <= 1
            /\ ( /\ pc[i] \notin {"idle", "wait"}
                 /\ \A d \in Deps(i) : GateState(gate[d]) = "ready" ) =>
                    execCalls[i] = 1)

\* An actor with an input gate started execute after its own interrupt
\* callback had been invoked.
C16_Witness ==
    \E i \in Actors :
        Deps(i) # {} /\ execLate[i] /\ execCalls[i] = 1

Received ==
    CASE runPc \in {"start", "recv"} -> 0
      [] runPc \in {"stopGate", "stopActor"} -> 1
      [] runPc = "drain" -> runI
      [] OTHER -> n

Reported == {i \in Actors : pc[i] = "done"}

\* C19: every goroutine's one send finds room in the channel, the values
\* sent are those received plus those pending, never more than n are
\* pending, and Run has received n values when it returns.
C19_OneReportEach ==
    /\ Len(errors) <= n
    /\ Len(errors) + Received = Cardinality(Reported)
    /\ \A i \in Actors :
          /\ pc[i] = "skipped" => ENABLED ReportSkipped(i)
          /\ pc[i] \in {"wait", "skipped", "exec"} => Len(errors) < Cap
    /\ runPc = "returned" => (Received = n /\ errors = <<>>)

\* All actors of a group of two or more have reported before Run received
\* anything: the channel is full.
C19_Witness ==
    /\ n >= 2
    /\ Len(errors) = n
    /\ runPc = "recv"

\* C20: a nil entry never blocks WaitDeps and never sets its flag: the
\* flag is set only by a wait that returned false, and an actor whose
\* entries are all nil can always take its next step up to execute and is
\* never skipped.
C20_NilIsSatisfied ==
    \A i \in Actors :
        /\ (pc[i] = "wait" /\ MoreDeps(i)
              /\ dependsOn[i][depIdx[i]] = NilDep) => ENABLED WaitDep(i)
        /\ interrupted[i] => \E k \in DOMAIN waitRet[i] : ~waitRet[i][k][2]
        /\ Deps(i) = {} =>
              /\ ~Skipped(i)
              /\ pc[i] = "wait" => ENABLED (WaitDep(i) \/ WaitDepsReturn(i))
              /\ pc[i] \notin {"idle", "wait"} => execCalls[i] = 1

\* An actor whose only entry is nil runs execute before any completion.
C20_Witness ==
    \E i \in Actors :
        /\ dependsOn[i] = <<NilDep>>
        /\ pc[i] = "exec"
        /\ runPc = "recv" /\ first = <<>>

\* Actor i is inside execute and its interrupt callback has been invoked.
ExecInterrupted(i) == i \in Actors /\ pc[i] = "exec" /\ intrCalls[i] = 1

\* C11: if no execute stays inside forever once its actor's interrupt
\* callback has been invoked and some actor completes, Run eventually
\* returns; and if some execute stays inside forever after its interrupt,
\* Run never returns.
C11_RunReturnsIffExecutesReturn ==
    /\ ( /\ \A i \in 1..MaxActors : []<>~ExecInterrupted(i)
         /\ <>(first # <<>>) ) => <>(runPc = "returned")
    /\ \A i \in 1..MaxActors :
          <>[]ExecInterrupted(i) => [](runPc # "returned")

\* Run has returned from a group in which an execute started after its
\* actor's interrupt callback had been invoked.
C11_Witness ==
    /\ runPc = "returned"
    /\ \E i \in Actors : execLate[i]

\* Actor i's goroutine is inside WaitDeps.
InWaitDeps(i) == i \in Actors /\ pc[i] = "wait"

\* C12: once Run has received the first completion every gate is
\* eventually resolved and every actor still in WaitDeps eventually leaves it.
C12_ShutdownReleasesWaiters ==
    /\ AfterFirst ~> (\A g \in Actors : GateState(gate[g]) # "pending")
    /\ \A i \in 1..MaxActors :
          (AfterFirst /\ InWaitDeps(i)) ~> ~InWaitDeps(i)

\* An actor was released from its wait on the gate of an actor that had
\* finished without ever calling ready.
C12_Witness ==
    \E i, d \in Actors :
        /\ <<d, FALSE>> \in {waitRet[i][k] : k \in DOMAIN waitRet[i]}
        /\ pc[d] = "done" /\ ~calledReady[d]
        /\ pc[i] # "wait"

\* Actor c is on a cycle of the dependency graph.
OnCycle(c) == DependsOnActor(c, c)

\* Actor i is on a cycle or waits, directly or through others, on an actor
\* that is.
BehindCycle(i) ==
    \E c \in Actors : OnCycle(c) /\ (c = i \/ DependsOnActor(i, c))

\* C18 as stated: in a group whose graph has a cycle, the actors on the
\* cycle stay waiting without invoking execute and Run does not return.
C18_Original ==
    (\E c \in Actors : OnCycle(c)) =>
        /\ runPc # "returned"
        /\ \A c \in Actors :
              OnCycle(c) => (pc[c] \in {"idle", "wait"} /\ execCalls[c] = 0)

\* C18 as amended: no actor on a cycle ever invokes execute; and when every
\* actor of the group is on a cycle or behind one, all actors stay waiting,
\* nothing is reported and Run stays blocked on its first receive.
C18_CycleDeadlocksWhenAllBehind ==
    /\ \A c \in Actors : OnCycle(c) => execCalls[c] = 0
    /\ (n >= 1 /\ \A i \in Actors : BehindCycle(i)) =>
          /\ runPc \in {"start", "recv"}
          /\ \A i \in Actors : pc[i] \in {"idle", "wait"} /\ execCalls[i] = 0
          /\ first = <<>> /\ errors = <<>>

\* Run is blocked on its first receive in a group of three: two actors wait
\* on each other and the third waits on one of them.
C18_Witness ==
    /\ n = 3 /\ runPc = "recv"
    /\ \A i \in Actors : BehindCycle(i) /\ pc[i] = "wait"
    /\ \E a, b, c \in Actors :
          /\ a # b /\ a \in Deps(b) /\ b \in Deps(a)
          /\ ~OnCycle(c) /\ a \in Deps(c)

====
